---------------------------- MODULE Spec2Model ----------------------------
(***************************************************************************)
(* The multi-partition BSP engine of olive (src/src/olive/engine.h): the   *)
(* run loop, the superstep driver and the scatter, compact, expand and     *)
(* vertexFilter kernels, with each kernel's work items interleaved at the  *)
(* granularity of their accesses to shared memory.                         *)
(*                                                                         *)
(* Arrays are functions over 0..n-1, as in the source.  A message buffer   *)
(* and a workqueue are represented by the slots below their length: the    *)
(* code never reads a slot at or above the length.                         *)
(*                                                                         *)
(* Kernels of different partitions touch disjoint state and each stream    *)
(* runs its operations in launch order, so the model runs the kernels in   *)
(* the order the host launches them and interleaves the work items within  *)
(* each kernel.                                                            *)
(***************************************************************************)
EXTENDS Integers, Sequences, FiniteSets, TLC

\* ------------------------------------------------------------- bounds
NumVertices == 3
MaxEdges == 2
MaxParts == 2
MaxSeeds == 2
MaxRuns == 2
MaxSupersteps == 6

Vertex == 0 .. (NumVertices - 1)

\* ------------------------------------------------------- array helpers
EmptyArr == [x \in {} |-> 0]

ArrLen(a) == Cardinality(DOMAIN a)

ArrAppend(a, x) == [k \in 0 .. ArrLen(a) |-> IF k < ArrLen(a) THEN a[k] ELSE x]

ArrPrefix(a, n) == [k \in 0 .. (n - 1) |-> a[k]]

\* The elements of a finite set of integers in ascending order, 0-based.
RECURSIVE SortedArr(_)
SortedArr(S) ==
    IF S = {} THEN EmptyArr
    ELSE LET m == CHOOSE x \in S : \A y \in S : y <= x
         IN  ArrAppend(SortedArr(S \ {m}), m)

\* ------------------------------------------------------- user kernels
\* The capability sets handed to run: "bfs" is the breadth-first search of
\* scenario S1; "relabel" lets an updated vertex pass cond again and packs
\* the payload with an offset that unpack removes; "reach" marks with 1 every
\* vertex an edge leads to, a seeded vertex included, and marks it once.
Kernels == {"bfs", "relabel"}

LiveKernels == {"bfs", "reach"}

cond(k, v) == IF k = "bfs" THEN v < 0 ELSE IF k = "reach" THEN v <= 0 ELSE v < 2

update(k, u) == IF k = "reach" THEN 1 ELSE u + 1

pack(k, v) == IF k = "bfs" THEN v ELSE v + 10

unpack(k, m) == IF k = "bfs" THEN m ELSE m - 10

\* The function vertexFilter applies to the selected vertex: set depth 0.
SetDepth0(v) == 0

\* The value every vertex holds before seeding.
InitialValue == 0 - 1


\* ------------------------------------------------ partitions (topology)
\* What the partitioner hands to Partition::fromSubgraph for an assignment
\* owner of vertices to partitions and an edge set E: the global ids of the
\* local vertices, and the CSR arrays whose destinations are already
\* (partitionId, localId) pairs.
Pairs == {e \in Vertex \X Vertex : e[1] # e[2]}

GlobalIdsOf(owner, i) == SortedArr({v \in DOMAIN owner : owner[v] = i})

LocalIdOf(owner, v) == Cardinality({w \in DOMAIN owner : owner[w] = owner[v] /\ w < v})

Targets(E, u) == SortedArr({e[2] : e \in {x \in E : x[1] = u}})

\* The edges of the local vertices 0 .. l-1, in CSR order.
RECURSIVE EdgesUpTo(_, _, _, _)
EdgesUpTo(owner, E, gids, l) ==
    IF l = 0 THEN EmptyArr
    ELSE LET before == EdgesUpTo(owner, E, gids, l - 1)
             ts == Targets(E, gids[l - 1])
             n == ArrLen(before)
         IN  [k \in 0 .. (n + ArrLen(ts) - 1) |->
                 IF k < n THEN before[k]
                 ELSE [partitionId |-> owner[ts[k - n]],
                       localId |-> LocalIdOf(owner, ts[k - n])]]

EdgesOf(owner, E, i) ==
    LET gids == GlobalIdsOf(owner, i)
    IN  EdgesUpTo(owner, E, gids, ArrLen(gids))

VerticesOf(owner, E, i) ==
    LET gids == GlobalIdsOf(owner, i)
    IN  [l \in 0 .. ArrLen(gids) |-> ArrLen(EdgesUpTo(owner, E, gids, l))]

\* The number of edges from partition i to partition j.
CrossEdges(es, i, j) == Cardinality({k \in DOMAIN es[i] : es[i][k].partitionId = j})

Max(S) == CHOOSE x \in S : \A y \in S : y <= x

\* The partitioner's maximum cross-cut, to which message boxes are sized.
MaxCrossCut(P, es) ==
    Max({0} \cup {CrossEdges(es, i, j) : i \in 0 .. (P - 1), j \in 0 .. (P - 1)})

\* ---------------------------------------------------------------- state
VARIABLES
    numParts,       \* partitions.size()
    globalIds,      \* partitions[i].globalIds
    vertices,       \* partitions[i].vertices (CSR row offsets)
    edges,          \* partitions[i].edges
    capacity,       \* the capacity of every message box buffer
    kern,           \* the user kernels passed to run
    vertexValues,   \* partitions[i].vertexValues
    workset,        \* partitions[i].workset
    workqueue,      \* partitions[i].workqueue, slots below workqueueSize
    workqueueSize,  \* partitions[i].workqueueSize
    outboxes,       \* partitions[i].outboxes[j]
    inboxes,        \* partitions[i].inboxes[j]
    supersteps,     \* Engine::supersteps
    terminate,      \* Engine::terminate
    pc,             \* where the host is
    hi, hj,         \* the host's loop indices i and j
    kpid, kbox,     \* the partition (and inbox) of the kernel in flight
    thr,            \* the work items of the kernel in flight
    runs,           \* history: calls of run so far
    calls,          \* history: calls of superstep in the current run
    seeds,          \* history: the ids vertexFilter was called with
    valuesAtCall,   \* history: vertexValues when the current superstep began
    readLog,        \* history: how many supersteps after its push a message was scattered
    converged,      \* history: run has returned and vertexFilter was not called since
    rerun,          \* history: the current run began on a converged engine
    oob,            \* history: a message was written past a buffer's capacity
    gathered,       \* history: the callbacks of gather, until the application goes on
    worksetAtCompact, \* history: partition i's workset when its last compact began
    queue,          \* partitions[i].streams[1]: the operations issued and not yet run
    doneOps         \* history: the operations of this superstep that have run

topo == <<numParts, globalIds, vertices, edges, capacity, kern>>
data == <<vertexValues, workset, workqueue, workqueueSize, outboxes, inboxes>>
host == <<supersteps, terminate, pc, hi, hj>>
dev == <<kpid, kbox, thr>>
hist == <<runs, calls, seeds, valuesAtCall, readLog, converged, rerun, oob, gathered>>
strm == <<queue, doneOps>>
vars == <<topo, data, host, dev, hist, worksetAtCompact, strm>>

Parts == 0 .. (numParts - 1)

vertexCount(i) == ArrLen(globalIds[i])

\* MessageBox: an outbox is one buffer and its length; an inbox adds the
\* receive buffer that recvMsgs fills and swapBuffers brings to the front.
EmptyOutbox == [buffer |-> EmptyArr, length |-> 0]

EmptyInbox == [buffer |-> EmptyArr, length |-> 0,
               bufferRecv |-> EmptyArr, lengthRecv |-> 0]

\* The state after Engine::init and the application's vertexMap that sets
\* every value to InitialValue: worksets, workqueues and boxes zeroed.
InitWith(P, owner, E, cap, k) ==
    /\ numParts = P
    /\ globalIds = [i \in 0 .. (P - 1) |-> GlobalIdsOf(owner, i)]
    /\ vertices = [i \in 0 .. (P - 1) |-> VerticesOf(owner, E, i)]
    /\ edges = [i \in 0 .. (P - 1) |-> EdgesOf(owner, E, i)]
    /\ capacity = cap
    /\ kern = k
    /\ vertexValues = [i \in 0 .. (P - 1) |->
                          [l \in DOMAIN GlobalIdsOf(owner, i) |-> InitialValue]]
    /\ workset = [i \in 0 .. (P - 1) |-> [l \in DOMAIN GlobalIdsOf(owner, i) |-> 0]]
    /\ workqueue = [i \in 0 .. (P - 1) |-> EmptyArr]
    /\ workqueueSize = [i \in 0 .. (P - 1) |-> 0]
    /\ outboxes = [i \in 0 .. (P - 1) |-> [j \in 0 .. (P - 1) |-> EmptyOutbox]]
    /\ inboxes = [i \in 0 .. (P - 1) |-> [j \in 0 .. (P - 1) |-> EmptyInbox]]
    /\ supersteps = 0
    /\ terminate = FALSE
    /\ pc = "idle"
    /\ hi = 0
    /\ hj = 0
    /\ kpid = 0
    /\ kbox = 0
    /\ thr = EmptyArr
    /\ runs = 0
    /\ calls = 0
    /\ seeds = {}
    /\ valuesAtCall = vertexValues
    /\ readLog = {}
    /\ converged = FALSE
    /\ rerun = FALSE
    /\ oob = FALSE
    /\ gathered = <<>>
    /\ worksetAtCompact = workset
    /\ queue = [i \in 0 .. (P - 1) |-> <<>>]
    /\ doneOps = {}

Graphs == {E \in SUBSET Pairs : Cardinality(E) <= MaxEdges}

Init ==
    \E P \in 1 .. MaxParts, E \in Graphs, k \in Kernels :
        \E owner \in [Vertex -> 0 .. (P - 1)] :
            InitWith(P, owner, E,
                     MaxCrossCut(P, [i \in 0 .. (P - 1) |-> EdgesOf(owner, E, i)]), k)


\* ------------------------------------------------------------ work items
WorkItems(n, item) == [tid \in 0 .. (n - 1) |-> item]

AllDone == \A tid \in DOMAIN thr : thr[tid].ph = "done"

ArrStore(a, k, x) == [m \in DOMAIN a \cup {k} |-> IF m = k THEN x ELSE a[m]]

\* ---------------------------------------------------------- vertexFilter
\* Engine::vertexCount: the number of vertices of the graph.
TotalVertices ==
    Cardinality(UNION {{globalIds[i][l] : l \in DOMAIN globalIds[i]} : i \in Parts})

\* The ids vertexFilter is called with: every global id, and one that is
\* the id of no vertex.
FilterIds == 0 .. TotalVertices

\* Mutant: the id is taken to count from 1.
Selected_OneBased(i, l, id) == globalIds[i][l] + 1 = id

\* vertexFilterKernel, line 126: the work item of the vertex with this id.
Selected(i, l, id) == globalIds[i][l] = id

\* vertexFilterKernel on every partition: the vertex whose global id is id
\* gets f applied and its workset flag set.
VertexFilter(id) ==
    /\ pc = "idle"
    /\ Cardinality(seeds \cup {id}) <= MaxSeeds
    /\ vertexValues' = [i \in Parts |-> [l \in DOMAIN vertexValues[i] |->
                           IF Selected(i, l, id)
                           THEN SetDepth0(vertexValues[i][l])
                           ELSE vertexValues[i][l]]]
    /\ workset' = [i \in Parts |-> [l \in DOMAIN workset[i] |->
                      IF Selected(i, l, id) THEN 1 ELSE workset[i][l]]]
    /\ seeds' = seeds \cup {id}
    /\ converged' = FALSE
    /\ UNCHANGED <<topo, workqueue, workqueueSize, outboxes, inboxes, host, dev>>
    /\ UNCHANGED <<runs, calls, valuesAtCall, readLog, rerun, oob>>
    /\ gathered' = <<>>
    /\ UNCHANGED <<worksetAtCompact, strm>>

\* ----------------------------------------------------------------- gather
\* Mutant: the callback is given the local index of the vertex.
GatherEntry_LocalId(i, j) == <<j, vertexValues[i][j]>>

\* Lines 173-174: updateAt(globalIds[j], vertexValues[j]).
GatherEntry(i, j) == <<globalIds[i][j], vertexValues[i][j]>>

\* Lines 170-176: the callbacks made from slot j of partition i onwards,
\* after those in acc.
RECURSIVE GatherFrom(_, _, _)
GatherFrom(i, j, acc) ==
    IF i >= numParts THEN acc
    ELSE IF j >= ArrLen(vertexValues[i]) THEN GatherFrom(i + 1, 0, acc)
    ELSE GatherFrom(i, j + 1, Append(acc, GatherEntry(i, j)))

\* Engine::gather.
Gather ==
    /\ pc = "idle"
    /\ gathered' = GatherFrom(0, 0, <<>>)
    /\ UNCHANGED <<topo, data, host, dev>>
    /\ UNCHANGED <<runs, calls, seeds, valuesAtCall, readLog, converged, rerun, oob>>
    /\ UNCHANGED <<worksetAtCompact, strm>>

\* -------------------------------------------------------------------- run
RunBegin ==
    /\ pc = "idle"
    /\ runs < MaxRuns
    /\ supersteps' = 0
    /\ pc' = "loop"
    /\ runs' = runs + 1
    /\ calls' = 0
    /\ rerun' = converged
    /\ UNCHANGED <<topo, data, terminate, hi, hj, dev>>
    /\ UNCHANGED <<seeds, valuesAtCall, readLog, converged, oob>>
    /\ gathered' = <<>>
    /\ UNCHANGED <<worksetAtCompact, strm>>

\* The head of run's loop: terminate = true, then superstep is entered.
LoopHead ==
    /\ pc = "loop"
    /\ supersteps < MaxSupersteps
    /\ terminate' = TRUE
    /\ pc' = "scatter"
    /\ hi' = 0
    /\ hj' = 0
    /\ calls' = calls + 1
    /\ valuesAtCall' = vertexValues
    /\ UNCHANGED <<topo, data, supersteps, dev>>
    /\ UNCHANGED <<runs, seeds, readLog, converged, rerun, oob>>
    /\ UNCHANGED gathered
    /\ UNCHANGED <<worksetAtCompact, strm>>

\* ---------------------------------------------------------------- scatter
\* The inboxes the host's double loop has still to look at and will launch
\* a scatter kernel for: those at or after (hi, hj) with a non-zero length.
ScatterPending ==
    {p \in Parts \X Parts :
        /\ p[1] > hi \/ (p[1] = hi /\ p[2] >= hj)
        /\ inboxes[p[1]][p[2]].length # 0}

FirstPair(S) == CHOOSE p \in S : \A q \in S : p[1] < q[1] \/ (p[1] = q[1] /\ p[2] <= q[2])

ScatterLaunch ==
    /\ pc = "scatter"
    /\ AllDone
    /\ ScatterPending # {}
    /\ LET p == FirstPair(ScatterPending)
       IN  /\ kpid' = p[1]
           /\ kbox' = p[2]
           /\ thr' = WorkItems(inboxes[p[1]][p[2]].length, [ph |-> "check", e |-> 0])
           /\ hi' = p[1]
           /\ hj' = p[2] + 1
    /\ UNCHANGED <<topo, data, supersteps, terminate, pc, hist>>
    /\ UNCHANGED <<worksetAtCompact, strm>>

\* How long after its push a message is read: the supersteps between, when
\* it was pushed during the current call of run.
Lag(msg) ==
    IF msg.bornRun = runs
    THEN [sameRun |-> TRUE, lag |-> supersteps - msg.born]
    ELSE [sameRun |-> FALSE, lag |-> 0]

\* scatterKernel, lines 33-39: the work item reads its message and checks
\* cond on the receiver's value.
\* Mutant: the message is applied whatever the vertex's value.
ScatterCond_Always(i, inNode) == TRUE

\* scatterKernel, line 39: cond on the receiver's value.
ScatterCond(i, inNode) == cond(kern, vertexValues[i][inNode])

\* scatterKernel, lines 32-39: the message is read and cond checked.
ScatterCheck(tid) ==
    /\ pc = "scatter"
    /\ tid \in DOMAIN thr
    /\ thr[tid].ph = "check"
    /\ LET msg == inboxes[kpid][kbox].buffer[tid]
           inNode == msg.receiverId
       IN  /\ thr' = [thr EXCEPT ![tid].ph =
                         IF ScatterCond(kpid, inNode) THEN "write" ELSE "done"]
           /\ readLog' = readLog \cup {Lag(msg)}
    /\ UNCHANGED <<topo, data, host, kpid, kbox>>
    /\ UNCHANGED <<runs, calls, seeds, valuesAtCall, converged, rerun, oob>>
    /\ UNCHANGED gathered
    /\ UNCHANGED <<worksetAtCompact, strm>>

\* Mutant: the unpacked payload is stored without update.
ScatterValue_NoUpdate(msg) == unpack(kern, msg.value)

\* scatterKernel, lines 37 and 40: the value stored for a message.
ScatterValue(msg) == update(kern, unpack(kern, msg.value))

\* Mutant: the receiver is updated and not activated.
Activate_Skip(i, inNode) == workset

\* scatterKernel, line 41: workset[inNode] = 1.
Activate(i, inNode) == [workset EXCEPT ![i][inNode] = 1]

\* scatterKernel, lines 40-41.
ScatterWrite(tid) ==
    /\ pc = "scatter"
    /\ tid \in DOMAIN thr
    /\ thr[tid].ph = "write"
    /\ LET msg == inboxes[kpid][kbox].buffer[tid]
           inNode == msg.receiverId
       IN  /\ vertexValues' = [vertexValues EXCEPT ![kpid][inNode] = ScatterValue(msg)]
           /\ workset' = Activate(kpid, inNode)
    /\ thr' = [thr EXCEPT ![tid].ph = "done"]
    /\ UNCHANGED <<topo, workqueue, workqueueSize, outboxes, inboxes, host, kpid, kbox, hist>>
    /\ UNCHANGED <<worksetAtCompact, strm>>

\* The scatter loop is over: the host goes on to the compact loop.
ScatterEnd ==
    /\ pc = "scatter"
    /\ AllDone
    /\ ScatterPending = {}
    /\ pc' = "compact"
    /\ hi' = 0
    /\ hj' = 0
    /\ thr' = EmptyArr
    /\ UNCHANGED <<topo, data, supersteps, terminate, kpid, kbox, hist>>
    /\ UNCHANGED <<worksetAtCompact, strm>>

\* ---------------------------------------------------------------- compact
\* Lines 337-360 for partition hi: the queue is cleared, compactKernel is
\* launched over vertexCount work items.
CompactLaunch ==
    /\ pc = "compact"
    /\ AllDone
    /\ hi < numParts
    /\ workqueueSize' = [workqueueSize EXCEPT ![hi] = 0]
    /\ workqueue' = [workqueue EXCEPT ![hi] = EmptyArr]
    /\ kpid' = hi
    /\ thr' = WorkItems(vertexCount(hi), [ph |-> "check", e |-> 0])
    /\ hi' = hi + 1
    /\ UNCHANGED <<topo, vertexValues, workset, outboxes, inboxes>>
    /\ UNCHANGED <<supersteps, terminate, pc, hj, kbox, hist>>
    /\ worksetAtCompact' = [worksetAtCompact EXCEPT ![hi] = workset[hi]]
    /\ UNCHANGED strm

\* Mutant: the flag of a queued vertex is left set.
ResetFlag_Keep(i, tid) == workset

\* compactKernel, line 55: the flag of an active vertex is reset.
ResetFlag(i, tid) == [workset EXCEPT ![i][tid] = 0]

\* Mutant: the slot is taken without the atomic add.
QueueSlot_Zero(i) == 0

\* compactKernel, line 56: the slot that atomicAdd reserves.
QueueSlot(i) == workqueueSize[i]

\* compactKernel: one work item.
CompactItem(tid) ==
    /\ pc = "compact"
    /\ tid \in DOMAIN thr
    /\ thr[tid].ph = "check"
    /\ IF workset[kpid][tid] = 1
       THEN LET offset == QueueSlot(kpid)
            IN  /\ workset' = ResetFlag(kpid, tid)
                /\ workqueueSize' = [workqueueSize EXCEPT ![kpid] = offset + 1]
                /\ workqueue' = [workqueue EXCEPT ![kpid] = ArrStore(@, offset, tid)]
       ELSE UNCHANGED <<workset, workqueueSize, workqueue>>
    /\ thr' = [thr EXCEPT ![tid].ph = "done"]
    /\ UNCHANGED <<topo, vertexValues, outboxes, inboxes, host, kpid, kbox, hist>>
    /\ UNCHANGED <<worksetAtCompact, strm>>

\* ------------------------------------------------------ termination probe
\* Mutant: each iteration overwrites the flag, so the last partition decides.
ProbeQuiescent_LastOnly == workqueueSize[numParts - 1] = 0

\* Lines 364-374: terminate stays true only if every workqueueSize is 0.
ProbeQuiescent == \A i \in Parts : workqueueSize[i] = 0

\* Mutant: the superstep that ends at the probe is counted too.
CountAtReturn_Incremented == supersteps + 1

\* Line 377: the early return skips the increment of line 501.
CountAtReturn == supersteps

\* Lines 362-377, and run's break at line 271.
Probe ==
    /\ pc = "compact"
    /\ AllDone
    /\ hi = numParts
    /\ terminate' = (terminate /\ ProbeQuiescent)
    /\ IF terminate'
       THEN /\ pc' = "idle"
            /\ converged' = TRUE
       ELSE /\ pc' = "expand"
            /\ UNCHANGED converged
    /\ supersteps' = IF terminate' THEN CountAtReturn ELSE supersteps
    /\ hi' = 0
    /\ thr' = EmptyArr
    /\ UNCHANGED <<topo, data, hj, kpid, kbox>>
    /\ UNCHANGED <<runs, calls, seeds, valuesAtCall, readLog, rerun, oob>>
    /\ UNCHANGED gathered
    /\ UNCHANGED <<worksetAtCompact, strm>>


\* ----------------------------------------------------------------- expand
\* MessageBox::clear.
clear(box) == [box EXCEPT !.buffer = EmptyArr, !.length = 0]

\* Mutant: the outboxes of the peers towards partition i are cleared.
ClearOutboxes_Transposed(i) ==
    [j \in Parts |-> IF i = j THEN outboxes[j]
                               ELSE [outboxes[j] EXCEPT ![i] = clear(@)]]

\* Mutant: expand is launched without clearing the outboxes.
ClearOutboxes_Never(i) == outboxes

\* Lines 388-391: partition i's outboxes to its peers are cleared.
ClearOutboxes(i) ==
    [outboxes EXCEPT ![i] = [j \in Parts |-> IF i = j THEN @[j] ELSE clear(@[j])]]

\* The partitions the expand loop has still to launch a kernel for.
ExpandPending == {i \in Parts : i >= hi /\ workqueueSize[i] # 0}

\* A work item of expandKernel at edge e of its vertex outNode.
AtEdge(i, outNode, e) ==
    [ph |-> IF e < vertices[i][outNode + 1] THEN "edge" ELSE "done", e |-> e]

ExpandLaunch ==
    /\ pc = "expand"
    /\ AllDone
    /\ ExpandPending # {}
    /\ LET i == CHOOSE x \in ExpandPending : \A y \in ExpandPending : x <= y
       IN  /\ outboxes' = ClearOutboxes(i)
           /\ kpid' = i
           /\ hi' = i + 1
           /\ thr' = [tid \in 0 .. (workqueueSize[i] - 1) |->
                         AtEdge(i, workqueue[i][tid], vertices[i][workqueue[i][tid]])]
    /\ UNCHANGED <<topo, vertexValues, workset, workqueue, workqueueSize, inboxes>>
    /\ UNCHANGED <<supersteps, terminate, pc, hj, kbox, hist>>
    /\ UNCHANGED <<worksetAtCompact, strm>>

\* Mutant: every edge is taken to lead to a remote partition.
IsLocal_Never(i, e) == FALSE

\* expandKernel, lines 82-83: the edge's destination is in this partition.
IsLocal(i, e) == edges[i][e].partitionId = i

\* expandKernel, lines 84-86: a local edge, cond is checked on the destination.
ExpandCheck(tid) ==
    /\ pc = "expand"
    /\ tid \in DOMAIN thr
    /\ thr[tid].ph = "edge"
    /\ IsLocal(kpid, thr[tid].e)
    /\ LET inNode == edges[kpid][thr[tid].e].localId
       IN  thr' = [thr EXCEPT ![tid] =
                      IF cond(kern, vertexValues[kpid][inNode])
                      THEN [@ EXCEPT !.ph = "write"]
                      ELSE AtEdge(kpid, workqueue[kpid][tid], @.e + 1)]
    /\ UNCHANGED <<topo, data, host, kpid, kbox, hist>>
    /\ UNCHANGED <<worksetAtCompact, strm>>

\* Mutant: the source's value is copied without update.
ExpandValue_NoUpdate(i, outNode) == vertexValues[i][outNode]

\* expandKernel, line 87: the value stored along a local edge.
ExpandValue(i, outNode) == update(kern, vertexValues[i][outNode])

\* expandKernel, lines 87-88.
ExpandWrite(tid) ==
    /\ pc = "expand"
    /\ tid \in DOMAIN thr
    /\ thr[tid].ph = "write"
    /\ LET outNode == workqueue[kpid][tid]
           inNode == edges[kpid][thr[tid].e].localId
       IN  /\ vertexValues' = [vertexValues EXCEPT ![kpid][inNode] =
                                  ExpandValue(kpid, outNode)]
           /\ workset' = [workset EXCEPT ![kpid][inNode] = 1]
           /\ thr' = [thr EXCEPT ![tid] = AtEdge(kpid, outNode, @.e + 1)]
    /\ UNCHANGED <<topo, workqueue, workqueueSize, outboxes, inboxes, host, kpid, kbox, hist>>
    /\ UNCHANGED <<worksetAtCompact, strm>>

\* expandKernel, lines 90-97: a remote edge.  The offset is reserved with
\* atomicAdd and the message stored there with no check against the
\* buffer's capacity; a store past it is undefined behaviour, which the
\* model records and does not follow further.
ExpandPush(tid) ==
    /\ pc = "expand"
    /\ tid \in DOMAIN thr
    /\ thr[tid].ph = "edge"
    /\ ~IsLocal(kpid, thr[tid].e)
    /\ LET outNode == workqueue[kpid][tid]
           pid == edges[kpid][thr[tid].e].partitionId
           msg == [receiverId |-> edges[kpid][thr[tid].e].localId,
                   value |-> pack(kern, vertexValues[kpid][outNode]),
                   born |-> supersteps, bornRun |-> runs]
           offset == outboxes[kpid][pid].length
       IN  /\ IF offset < capacity
              THEN /\ outboxes' = [outboxes EXCEPT ![kpid][pid] =
                                      [buffer |-> ArrStore(@.buffer, offset, msg),
                                       length |-> offset + 1]]
                   /\ UNCHANGED <<pc, oob>>
              ELSE /\ outboxes' = [outboxes EXCEPT ![kpid][pid].length = offset + 1]
                   /\ pc' = "undefined"
                   /\ oob' = TRUE
           /\ thr' = [thr EXCEPT ![tid] = AtEdge(kpid, outNode, @.e + 1)]
    /\ UNCHANGED <<topo, vertexValues, workset, workqueue, workqueueSize, inboxes>>
    /\ UNCHANGED <<supersteps, terminate, hi, hj, kpid, kbox>>
    /\ UNCHANGED <<runs, calls, seeds, valuesAtCall, readLog, converged, rerun>>
    /\ UNCHANGED gathered
    /\ UNCHANGED <<worksetAtCompact, strm>>

\* The expand loop is over: the host goes on to the communication stage.
ExpandEnd ==
    /\ pc = "expand"
    /\ AllDone
    /\ ExpandPending = {}
    /\ pc' = "exchange"
    /\ hi' = 0
    /\ thr' = EmptyArr
    /\ UNCHANGED <<topo, data, supersteps, terminate, hj, kpid, kbox, hist>>
    /\ UNCHANGED <<worksetAtCompact, strm>>

\* --------------------------------------------------------------- exchange
\* MessageBox::recvMsgs: the peer's outbox, other.length messages of it, is
\* copied into this box's receive buffer.
recvMsgs(box, other) ==
    [box EXCEPT !.bufferRecv = ArrPrefix(other.buffer, other.length),
                !.lengthRecv = other.length]

\* MessageBox::swapBuffers: the receive buffer becomes the one scatter
\* reads; the other one is empty until it is received into again.
swapBuffers(box) ==
    [buffer |-> box.bufferRecv, length |-> box.lengthRecv,
     bufferRecv |-> EmptyArr, lengthRecv |-> 0]

\* Mutant: the receiver takes the sender's outbox of the wrong index.
ExchangeAll_OwnIndex ==
    [i \in Parts |-> [j \in Parts |->
        IF i = j THEN inboxes[i][j] ELSE recvMsgs(inboxes[i][j], outboxes[j][j])]]

\* Lines 426-433: inboxes[i][j] receives outboxes[j][i] for every i # j.
ExchangeAll ==
    [i \in Parts |-> [j \in Parts |->
        IF i = j THEN inboxes[i][j] ELSE recvMsgs(inboxes[i][j], outboxes[j][i])]]

Exchange ==
    /\ pc = "exchange"
    /\ inboxes' = ExchangeAll
    /\ pc' = "swap"
    /\ UNCHANGED <<topo, vertexValues, workset, workqueue, workqueueSize, outboxes>>
    /\ UNCHANGED <<supersteps, terminate, hi, hj, dev, hist>>
    /\ UNCHANGED <<worksetAtCompact, strm>>

\* Mutant: the inboxes are not swapped.
SwapAll_None == inboxes

\* Lines 445-450.
SwapAll ==
    [i \in Parts |-> [j \in Parts |->
        IF i = j THEN inboxes[i][j] ELSE swapBuffers(inboxes[i][j])]]

\* Lines 437-501: the streams are synchronized, the inboxes swapped and
\* supersteps incremented; superstep returns with terminate false.
Swap ==
    /\ pc = "swap"
    /\ inboxes' = SwapAll
    /\ supersteps' = supersteps + 1
    /\ pc' = "loop"
    /\ UNCHANGED <<topo, vertexValues, workset, workqueue, workqueueSize, outboxes>>
    /\ UNCHANGED <<terminate, hi, hj, dev, hist>>
    /\ UNCHANGED <<worksetAtCompact, strm>>

\* ------------------------------------------------------------------- spec
Next ==
    \/ \E id \in FilterIds : VertexFilter(id)
    \/ Gather
    \/ RunBegin
    \/ LoopHead
    \/ ScatterLaunch
    \/ \E tid \in DOMAIN thr : ScatterCheck(tid)
    \/ \E tid \in DOMAIN thr : ScatterWrite(tid)
    \/ ScatterEnd
    \/ CompactLaunch
    \/ \E tid \in DOMAIN thr : CompactItem(tid)
    \/ Probe
    \/ ExpandLaunch
    \/ \E tid \in DOMAIN thr : ExpandCheck(tid)
    \/ \E tid \in DOMAIN thr : ExpandWrite(tid)
    \/ \E tid \in DOMAIN thr : ExpandPush(tid)
    \/ ExpandEnd
    \/ Exchange
    \/ Swap

Spec == Init /\ [][Next]_vars

\* The same engine with message boxes of any capacity up to MaxEdges, sized
\* or not to the cross-cut.
InitCap ==
    \E P \in 1 .. MaxParts, E \in Graphs, k \in Kernels, cap \in 0 .. MaxEdges :
        \E owner \in [Vertex -> 0 .. (P - 1)] : InitWith(P, owner, E, cap, k)

SpecCap == InitCap /\ [][Next]_vars

\* The path 0 -> 1 -> 2 -> 3 -> 4 of scenario S1 under every assignment of
\* its vertices to one or two partitions, run with the bfs kernels.  S1
\* itself is the assignment OwnerS1: P0 = {0, 2, 4} and P1 = {1, 3}.
PathS1 == {<<0, 1>>, <<1, 2>>, <<2, 3>>, <<3, 4>>}

OwnerS1 == [v \in 0 .. 4 |-> v % 2]

InitS1 ==
    \E P \in 1 .. 2 : \E owner \in [0 .. 4 -> 0 .. (P - 1)] :
        InitWith(P, owner, PathS1,
                 MaxCrossCut(P, [i \in 0 .. (P - 1) |-> EdgesOf(owner, PathS1, i)]), "bfs")

SpecS1 == InitS1 /\ [][Next]_vars

\* ---------------------------------------------------------------- streams
\* The driver seen as the issuer of asynchronous operations: superstep puts
\* kernels and copies on the streams of the partitions and blocks at two
\* fences; each stream runs its operations in the order of issue, the
\* streams of different partitions run concurrently.  Which kernels are
\* launched depends on the data and is left open here.
Op(k, i, j) == [k |-> k, p |-> i, q |-> j]

Issue(i, op) == queue' = [queue EXCEPT ![i] = Append(@, op)]

Idle == \A i \in Parts : queue[i] = <<>>

unch == <<topo, data, dev, hist, worksetAtCompact>>

\* run's loop head, lines 266-267.
SLoopHead ==
    /\ pc = "loop"
    /\ supersteps < MaxSupersteps
    /\ terminate' = TRUE
    /\ pc' = "scatter"
    /\ hi' = 0 /\ hj' = 0
    /\ doneOps' = {}
    /\ UNCHANGED <<unch, supersteps, queue>>

\* Lines 309-334: for the pair (hi, hj) the scatter kernel is skipped or put
\* on the stream of partition hi.
SScatter ==
    /\ pc = "scatter"
    /\ hi < numParts
    /\ \/ UNCHANGED queue
       \/ hi # hj /\ Issue(hi, Op("scatter", hi, hj))
    /\ IF hj + 1 < numParts
       THEN hj' = hj + 1 /\ hi' = hi /\ pc' = pc
       ELSE /\ hj' = 0
            /\ IF hi + 1 < numParts
               THEN hi' = hi + 1 /\ pc' = pc
               ELSE hi' = 0 /\ pc' = "compact"
    /\ UNCHANGED <<unch, supersteps, terminate, doneOps>>

\* Lines 337-360: the compact kernel of partition hi is put on its stream.
SCompact ==
    /\ pc = "compact"
    /\ hi < numParts
    /\ Issue(hi, Op("compact", hi, hi))
    /\ IF hi + 1 < numParts THEN hi' = hi + 1 /\ pc' = pc
                            ELSE hi' = 0 /\ pc' = "probe"
    /\ UNCHANGED <<unch, supersteps, terminate, hj, doneOps>>

\* Lines 362-377: the first fence, the blocking copy of every workqueueSize
\* to the host, and the early return.
SProbe ==
    /\ pc = "probe"
    /\ Idle
    /\ \E t \in BOOLEAN :
          /\ terminate' = t
          /\ pc' = IF t THEN "idle" ELSE "expand"
    /\ UNCHANGED <<unch, supersteps, hi, hj, strm>>

\* Lines 382-417: the expand kernel of partition hi is skipped or put on
\* its stream.
SExpand ==
    /\ pc = "expand"
    /\ hi < numParts
    /\ \/ UNCHANGED queue
       \/ Issue(hi, Op("expand", hi, hi))
    /\ IF hi + 1 < numParts THEN hi' = hi + 1 /\ pc' = pc
                            ELSE hi' = 0 /\ pc' = "exchange"
    /\ UNCHANGED <<unch, supersteps, terminate, hj, doneOps>>

\* Lines 426-433: the copies in the order the host issues them, each as
\* <<source, receiver>>: for i < j, first outboxes[j][i], then outboxes[i][j].
RECURSIVE CopiesFrom(_, _)
CopiesFrom(i, j) ==
    IF i >= numParts THEN <<>>
    ELSE IF j >= numParts THEN CopiesFrom(i + 1, i + 2)
    ELSE <<<<j, i>>, <<i, j>>>> \o CopiesFrom(i, j + 1)

\* Mutant: the copy is put on the stream of the receiving partition.
CopyStream_Receiver(src, dst) == dst

\* Lines 428-431: the copy is put on the stream of the source partition.
CopyStream(src, dst) == src

\* Lines 426-433: the next copy is issued.
SExchange ==
    /\ pc = "exchange"
    /\ LET cs == CopiesFrom(0, 1)
       IN  IF hi < Len(cs)
           THEN /\ Issue(CopyStream(cs[hi + 1][1], cs[hi + 1][2]),
                         Op("copy", cs[hi + 1][1], cs[hi + 1][2]))
                /\ hi' = hi + 1
                /\ pc' = pc
           ELSE /\ hi' = 0
                /\ pc' = "sync"
                /\ UNCHANGED queue
    /\ UNCHANGED <<unch, supersteps, terminate, hj, doneOps>>

\* Lines 437-501: the second fence, cudaStreamSynchronize of every stream;
\* then the swap and supersteps += 1.
SSync ==
    /\ pc = "sync"
    /\ Idle
    /\ pc' = "loop"
    /\ supersteps' = supersteps + 1
    /\ UNCHANGED <<unch, terminate, hi, hj, strm>>

\* The stream of partition i runs its oldest operation.
Exec(i) ==
    /\ queue[i] # <<>>
    /\ queue' = [queue EXCEPT ![i] = Tail(@)]
    /\ doneOps' = doneOps \cup {Head(queue[i])}
    /\ UNCHANGED <<unch, host>>

\* run is called (lines 261-265).
SRun ==
    /\ pc = "idle"
    /\ supersteps = 0
    /\ terminate = FALSE
    /\ pc' = "loop"
    /\ UNCHANGED <<unch, supersteps, terminate, hi, hj, strm>>

NextStreams ==
    \/ SRun
    \/ SLoopHead
    \/ SScatter
    \/ SCompact
    \/ SProbe
    \/ SExpand
    \/ SExchange
    \/ SSync
    \/ \E i \in Parts : Exec(i)

InitStreams ==
    \E P \in 1 .. MaxParts :
        InitWith(P, [v \in Vertex |-> v % P], {}, 0, "bfs")

SpecStreams == InitStreams /\ [][NextStreams]_vars


\* ================================================================= claims
Quiescent == \A i \in Parts : workqueueSize[i] = 0

\* The superstep that was entered last has returned.
AfterSuperstep == (pc = "loop" /\ calls > 0) \/ (pc = "idle" /\ converged)

\* run has returned and nothing was called since.
Returned == pc = "idle" /\ converged

\* C1: run returns exactly at the termination probe of the first superstep
\* at whose compact-phase end every partition's workqueueSize is zero: the
\* step that leaves the compact phase returns from run if and only if every
\* workqueueSize is zero, and run returns by no other step.
C1_ReturnsIffQuiescent ==
    [][/\ (pc = "compact" /\ pc' # "compact") => ((pc' = "idle") <=> Quiescent')
       /\ (pc # "idle" /\ pc' = "idle") => (pc = "compact" /\ Quiescent')]_vars

\* A run of two partitions has returned after at least one full superstep.
C1_Witness == Returned /\ numParts = 2 /\ supersteps > 0

\* C2: a message pushed in superstep t is scattered in superstep t+1 and in
\* no other superstep of that run.
C2_VisibleOnlyNextStep == \A r \in readLog : r.sameRun => r.lag = 1

NoLocalEdge(i) == \A k \in DOMAIN edges[i] : edges[i][k].partitionId # i

WorksetZero(i) == \A l \in DOMAIN workset[i] : workset[i][l] = 0

\* C3 as stated: after any superstep the workset of every partition is zero.
C3_WorksetZeroAfterSuperstep == AfterSuperstep => \A i \in Parts : WorksetZero(i)

\* C3 amended: after a terminating superstep the workset of every partition
\* is zero, and after any superstep the workset of a partition without
\* partition-local edges is zero.
C3_WorksetZeroUnlessLocalEdges ==
    /\ Returned => \A i \in Parts : WorksetZero(i)
    /\ AfterSuperstep => \A i \in Parts : NoLocalEdge(i) => WorksetZero(i)

\* A partition without local edges had work in a superstep that did not
\* terminate, and its workset is zero after it.
C3_Witness ==
    /\ pc = "loop"
    /\ calls > 0
    /\ \E i \in Parts : NoLocalEdge(i) /\ workqueueSize[i] > 0 /\ edges[i] # EmptyArr

\* C4: after the exchange of a superstep, inboxes[j][i] holds outboxes[i][j]
\* as expand left it, the same length and the same messages: in the receive
\* buffer until the swap, and in the buffer scatter reads from the swap until
\* the next expand.
C4_InboxEqualsOutbox ==
    \A i \in Parts, j \in Parts : i # j =>
        /\ pc = "swap" =>
              /\ inboxes[j][i].lengthRecv = outboxes[i][j].length
              /\ inboxes[j][i].bufferRecv = outboxes[i][j].buffer
        /\ (pc \in {"loop", "scatter", "compact"} /\ supersteps > 0) =>
              /\ inboxes[j][i].length = outboxes[i][j].length
              /\ inboxes[j][i].buffer = outboxes[i][j].buffer

\* Scatter is about to read an inbox that holds messages, while the inbox of
\* the opposite direction holds a different number of them.
C4_Witness ==
    /\ pc = "scatter"
    /\ supersteps > 0
    /\ \E i \in Parts, j \in Parts :
          i # j /\ inboxes[j][i].length > 0 /\ inboxes[i][j].length # inboxes[j][i].length


\* ------------------------------------------------ the one-partition run
\* The graph, the seeds and the values by global id.
AllIds == UNION {{globalIds[i][l] : l \in DOMAIN globalIds[i]} : i \in Parts}

EdgesFrom(i, l) ==
    {<<globalIds[i][l], globalIds[edges[i][k].partitionId][edges[i][k].localId]>> :
        k \in vertices[i][l] .. (vertices[i][l + 1] - 1)}

GlobalEdges == UNION {UNION {EdgesFrom(i, l) : l \in DOMAIN globalIds[i]} : i \in Parts}

Gathered ==
    [v \in AllIds |->
        LET i == CHOOSE x \in Parts : \E l \in DOMAIN globalIds[x] : globalIds[x][l] = v
            l == CHOOSE y \in DOMAIN globalIds[i] : globalIds[i][y] = v
        IN  vertexValues[i][l]]

\* The run of the same graph with numParts = 1, every kernel's work items
\* taken in index order: one of the interleavings of that run.  In one
\* partition every edge is local, local ids are the global ids, compact
\* queues the active vertices in ascending order and expand walks the edges
\* of each in CSR order.  st is [vals, ws]: vertexValues and workset.
RECURSIVE RefExpand(_, _, _, _)
RefExpand(k, E, st, todo) ==
    IF todo = {} THEN st
    ELSE LET e == CHOOSE x \in todo :
                      \A y \in todo : x[1] < y[1] \/ (x[1] = y[1] /\ x[2] <= y[2])
             hit == cond(k, st.vals[e[2]])
             nxt == IF hit
                    THEN [vals |-> [st.vals EXCEPT ![e[2]] = update(k, st.vals[e[1]])],
                          ws |-> st.ws \cup {e[2]}]
                    ELSE st
         IN  RefExpand(k, E, nxt, todo \ {e})

\* Supersteps until the probe finds the workqueue empty, fuel at most.
RECURSIVE RefRun(_, _, _, _)
RefRun(k, E, st, fuel) ==
    IF st.ws = {} THEN [done |-> TRUE, vals |-> st.vals]
    ELSE IF fuel = 0 THEN [done |-> FALSE, vals |-> st.vals]
    ELSE RefRun(k, E,
                RefExpand(k, E, [vals |-> st.vals, ws |-> {}],
                          {e \in E : e[1] \in st.ws}),
                fuel - 1)

RefSeeded == [vals |-> [v \in AllIds |-> IF v \in seeds THEN SetDepth0(InitialValue)
                                                     ELSE InitialValue],
              ws |-> seeds \cap AllIds]

RefResult == RefRun(kern, GlobalEdges, RefSeeded, MaxSupersteps)

Settling(k) ==
    \A x \in InitialValue .. (TotalVertices + 1) :
        /\ ~cond(k, update(k, x))
        /\ ~cond(k, SetDepth0(x))
        /\ unpack(k, pack(k, x)) = x

AfterS1 ==
    /\ numParts = 2
    /\ globalIds = [i \in 0 .. 1 |-> GlobalIdsOf(OwnerS1, i)]
    /\ seeds = {0}
    /\ runs = 1
    /\ Returned

\* C6 as stated: after S1 the depths are 0, 1, 2, 3, 4 and the superstep
\* count is 4.
C6_S1FourSupersteps ==
    AfterS1 => (Gathered = [v \in 0 .. 4 |-> v] /\ supersteps = 4)

\* C6 amended: after S1 the depths are 0, 1, 2, 3, 4, the supersteps counter
\* is 5 and superstep was called 6 times.
C6_S1FiveSupersteps ==
    AfterS1 => (Gathered = [v \in 0 .. 4 |-> v] /\ supersteps = 5 /\ calls = 6)

C6_Witness == AfterS1

\* C7: a run begun on a converged engine calls superstep once, leaves the
\* superstep at the termination probe (no expand, no exchange, no swap),
\* changes no vertex value and has returned when it is idle again.
C7_RerunIsOneProbeStep ==
    (rerun /\ (pc = "idle" => converged)) =>
        /\ supersteps = 0
        /\ calls <= 1
        /\ pc \in {"loop", "scatter", "compact", "idle"}
        /\ pc = "loop" => calls = 0
        /\ calls = 1 => vertexValues = valuesAtCall
        /\ pc = "idle" => calls = 1

\* The second run has returned, and its scatter read the messages that the
\* last exchange of the first run had delivered.
C7_Witness ==
    /\ rerun /\ Returned /\ runs = 2
    /\ \E r \in readLog : ~r.sameRun

NoEdges == \A i \in Parts : edges[i] = EmptyArr

\* C8: on a graph with no edges, whatever the seeds, partitions and kernels,
\* run returns after at most one superstep: the supersteps counter never
\* exceeds 1, and the superstep entered with the counter at 1 ends at its
\* termination probe.
C8_EdgelessAtMostOneSuperstep ==
    NoEdges =>
        /\ supersteps <= 1
        /\ supersteps = 1 => pc \in {"loop", "scatter", "compact", "idle"}
        /\ (supersteps = 1 /\ pc = "loop") => calls = 1

\* A seeded run on an edgeless graph of two partitions has returned after
\* one full superstep.
C8_Witness == NoEdges /\ numParts = 2 /\ Returned /\ supersteps = 1 /\ seeds # {}

\* C9: no message is written past the capacity of an outbox (an expand that
\* would overflow is caught by a bounds check on the reserved offset).
C9_NoWritePastCapacity == ~oob

Sized == \A i \in Parts, j \in Parts : capacity >= CrossEdges(edges, i, j)

\* C10: when every outbox is sized to the number of edges between its two
\* partitions, every message box keeps 0 <= length <= capacity, and an
\* outbox never holds more messages than there are such edges.
C10_LengthWithinCapacity ==
    Sized =>
        \A i \in Parts, j \in Parts :
            /\ 0 <= outboxes[i][j].length
            /\ outboxes[i][j].length <= CrossEdges(edges, i, j)
            /\ outboxes[i][j].length <= capacity
            /\ 0 <= inboxes[i][j].length /\ inboxes[i][j].length <= capacity
            /\ 0 <= inboxes[i][j].lengthRecv /\ inboxes[i][j].lengthRecv <= capacity

\* An outbox sized exactly to its two edges is full after an expand.
C10_Witness ==
    /\ Sized
    /\ \E i \in Parts, j \in Parts :
          /\ outboxes[i][j].length = capacity
          /\ capacity = 2
          /\ pc = "exchange"


\* ------------------------------------------------------------------ C11
\* The id that is the global id of no vertex.
NoSuchId == TotalVertices

AllWorksetZero == \A i \in Parts : WorksetZero(i)

\* C11 as stated: vertexFilter with an id of no vertex, in whatever state it
\* is called, leaves all state unchanged and the workset all-zero.
C11_BadIdLeavesWorksetZero ==
    [][VertexFilter(NoSuchId) =>
          (UNCHANGED <<topo, data, host, dev>> /\ AllWorksetZero')]_vars

\* C11 amended: vertexFilter with an id of no vertex leaves all state
\* unchanged, so the workset is all-zero after it when it was before it.
C11_BadIdChangesNothing ==
    [][VertexFilter(NoSuchId) =>
          /\ UNCHANGED <<topo, data, host, dev>>
          /\ AllWorksetZero => AllWorksetZero']_vars

\* vertexFilter was called with an id of no vertex, on an engine whose
\* workset held a vertex selected before.
C11_Witness ==
    /\ pc = "idle" /\ runs = 0
    /\ NoSuchId \in seeds
    /\ \E v \in AllIds : v \in seeds
    /\ ~AllWorksetZero

\* ------------------------------------------------------------------ C12
BoxesEmpty ==
    \A i \in Parts, j \in Parts :
        /\ outboxes[i][j].length = 0
        /\ inboxes[i][j].length = 0
        /\ inboxes[i][j].lengthRecv = 0

\* C12: with a single partition no step receives into or swaps an inbox, no
\* message is pushed to an outbox, every message box length stays 0, and a
\* scatter kernel is never launched.
C12_OnePartitionNoExchange ==
    [][numParts = 1 =>
          /\ BoxesEmpty /\ BoxesEmpty'
          /\ UNCHANGED <<inboxes, outboxes>>
          /\ ~ScatterLaunch
          /\ \A tid \in DOMAIN thr : ~ExpandPush(tid)]_vars

\* A run on one partition has returned after at least two full supersteps,
\* each of which went through the exchange and swap stages.
C12_Witness ==
    /\ numParts = 1 /\ Returned /\ supersteps >= 2
    /\ \E l \in DOMAIN vertexValues[0] : vertexValues[0][l] > 0

\* ------------------------------------------------------------------ C13
\* The partition and the local index of the vertex with global id v.
PartOf(v) == CHOOSE i \in Parts : \E l \in DOMAIN globalIds[i] : globalIds[i][l] = v

LocalOf(v) == CHOOSE l \in DOMAIN globalIds[PartOf(v)] : globalIds[PartOf(v)][l] = v

\* The callbacks in calls name every global id exactly once, with the
\* vertex's value, ordered by partition and then by local index.
GatherOk(calls_) ==
    /\ Len(calls_) = TotalVertices
    /\ \A v \in AllIds :
          /\ Cardinality({k \in 1 .. Len(calls_) : calls_[k][1] = v}) = 1
          /\ \A k \in 1 .. Len(calls_) :
                calls_[k][1] = v => calls_[k][2] = vertexValues[PartOf(v)][LocalOf(v)]
    /\ \A k \in 1 .. Len(calls_) : calls_[k][1] \in AllIds
    /\ \A k \in 1 .. Len(calls_), m \in 1 .. Len(calls_) :
          k < m =>
              \/ PartOf(calls_[k][1]) < PartOf(calls_[m][1])
              \/ /\ PartOf(calls_[k][1]) = PartOf(calls_[m][1])
                 /\ LocalOf(calls_[k][1]) < LocalOf(calls_[m][1])

\* C13: gather calls back exactly once for every global id, with that
\* vertex's current value, in partition-major then local-index-major order,
\* and changes no vertex value, no workset and nothing else of the engine.
C13_GatherVisitsEachOnce ==
    [][Gather => (GatherOk(gathered)' /\ UNCHANGED <<topo, data, host, dev>>)]_vars

\* gather has run after a two-partition run that updated a vertex, on a
\* partitioning whose callback order is not the global-id order.
C13_Witness ==
    /\ gathered # <<>> /\ Returned /\ numParts = 2
    /\ \E k \in 1 .. Len(gathered) : gathered[k][2] > 0
    /\ \E k \in 1 .. (Len(gathered) - 1) : gathered[k][1] > gathered[k + 1][1]

\* ------------------------------------------------------------------ C14
\* The local vertex a scatter or expand work item checks and writes.
TargetOf(tid) ==
    IF pc = "scatter" THEN inboxes[kpid][kbox].buffer[tid].receiverId
    ELSE edges[kpid][thr[tid].e].localId

\* Work item tid is about to check cond on its target.
AtCheck(tid) ==
    \/ pc = "scatter" /\ thr[tid].ph = "check"
    \/ pc = "expand" /\ thr[tid].ph = "edge" /\ IsLocal(kpid, thr[tid].e)

\* Work item tid, whose check passed, stores to its target in this step.
Writes(tid) ==
    /\ pc \in {"scatter", "expand"}
    /\ tid \in DOMAIN thr
    /\ thr[tid].ph = "write"
    /\ thr'[tid] # thr[tid]

\* C14: during run a work item overwrites its vertex if and only if cond
\* returned true on that vertex's value at its check; a value changes only
\* by such a write; a workset flag is set only by vertexFilter or by such a
\* write, and every such write sets it.
C14_UpdateIffCond ==
    [][/\ \A tid \in DOMAIN thr :
            /\ (AtCheck(tid) /\ thr'[tid] # thr[tid]) =>
                   ((thr'[tid].ph = "write") <=> cond(kern, vertexValues[kpid][TargetOf(tid)]))
            /\ Writes(tid) => workset'[kpid][TargetOf(tid)] = 1
       /\ (pc \in {"scatter", "expand"} /\ pc' # pc) =>
              \A tid \in DOMAIN thr : thr[tid].ph # "write"
       /\ \A i \in Parts : \A l \in DOMAIN vertexValues[i] :
            /\ (pc # "idle" /\ vertexValues'[i][l] # vertexValues[i][l]) =>
                   \E tid \in DOMAIN thr : Writes(tid) /\ kpid = i /\ TargetOf(tid) = l
            /\ (workset[i][l] = 0 /\ workset'[i][l] = 1) =>
                   \/ pc = "idle" /\ globalIds[i][l] \in seeds'
                   \/ \E tid \in DOMAIN thr : Writes(tid) /\ kpid = i /\ TargetOf(tid) = l]_vars

\* An expand work item passed cond on a vertex that another work item has
\* updated since, and is about to overwrite it.
C14_Witness ==
    /\ pc = "expand"
    /\ \E tid \in DOMAIN thr :
          /\ thr[tid].ph = "write"
          /\ ~cond(kern, vertexValues[kpid][TargetOf(tid)])
          /\ workset[kpid][TargetOf(tid)] = 1

\* ------------------------------------------------------------------ C15
\* C15: a superstep whose probe finds every workqueueSize zero returns to
\* run at the probe: from its entry on no step clears or writes an outbox,
\* writes or swaps an inbox or increments supersteps, and run has then
\* called superstep supersteps + 1 times.
C15_ReturnsBeforeExpand ==
    [][/\ pc \in {"loop", "scatter", "compact"} =>
              UNCHANGED <<outboxes, inboxes, supersteps>>
       /\ (pc = "compact" /\ pc' # "compact" /\ Quiescent') =>
              (pc' = "idle" /\ calls' = supersteps' + 1)]_vars

\* A run has returned after full supersteps, its last superstep leaving the
\* messages of an earlier one in an outbox and in an inbox.
C15_Witness ==
    /\ Returned /\ supersteps >= 1 /\ calls = supersteps + 1
    /\ \E i \in Parts, j \in Parts : outboxes[i][j].length > 0
    /\ \E i \in Parts, j \in Parts : inboxes[i][j].length > 0

\* ------------------------------------------------------------------ C16
ActiveAtCompact(i) == {l \in DOMAIN worksetAtCompact[i] : worksetAtCompact[i][l] = 1}

\* C16: when the compact kernel of a partition has completed, under any
\* interleaving of its work items, workqueueSize is the number of vertices
\* whose flag was 1 when it began, the queue's slots below workqueueSize
\* hold exactly those vertices, each once, workqueueSize is at most
\* vertexCount and every workset slot is 0.
C16_CompactPostcondition ==
    (pc = "compact" /\ AllDone) =>
        \A i \in 0 .. (hi - 1) :
            /\ workqueueSize[i] = Cardinality(ActiveAtCompact(i))
            /\ DOMAIN workqueue[i] = 0 .. (workqueueSize[i] - 1)
            /\ {workqueue[i][k] : k \in DOMAIN workqueue[i]} = ActiveAtCompact(i)
            /\ workqueueSize[i] <= vertexCount(i)
            /\ WorksetZero(i)

\* The compact kernels of two partitions have completed, one of them having
\* queued two vertices in the order opposite to their indices.
C16_Witness ==
    /\ pc = "compact" /\ AllDone /\ hi = 2
    /\ \E i \in Parts :
          /\ workqueueSize[i] = 2
          /\ workqueue[i][0] > workqueue[i][1]

\* ------------------------------------------------------------------ C17
\* The edges of the queued vertices of partition i that lead to partition p,
\* each with the work item that walks it.
QueuedEdgesTo(i, p) ==
    {te \in (0 .. (workqueueSize[i] - 1)) \X DOMAIN edges[i] :
        /\ te[2] >= vertices[i][workqueue[i][te[1]]]
        /\ te[2] < vertices[i][workqueue[i][te[1]] + 1]
        /\ edges[i][te[2]].partitionId = p}

\* Work item tid handles a remote edge in this step.
Pushes(tid) ==
    /\ pc = "expand"
    /\ thr[tid].ph = "edge"
    /\ ~IsLocal(kpid, thr[tid].e)
    /\ thr'[tid] # thr[tid]

\* The expand kernel of partition kpid has completed.
ExpandDone == pc = "expand" /\ AllDone /\ hi > 0

\* C17: each remote edge of a queued vertex puts exactly one message, with
\* the edge's localId and pack of the vertex's value, into the outbox of the
\* edge's partition at a slot of its own, whatever the interleaving; when
\* the kernel has completed each peer outbox has as many messages as there
\* are such edges, all of them pushed in the current superstep.
C17_ExpandPushesEachEdgeOnce ==
    [][/\ \A tid \in DOMAIN thr : Pushes(tid) =>
            LET p == edges[kpid][thr[tid].e].partitionId
                off == outboxes[kpid][p].length
            IN  /\ outboxes'[kpid][p].length = off + 1
                /\ off \in DOMAIN outboxes'[kpid][p].buffer
                /\ outboxes'[kpid][p].buffer[off].receiverId = edges[kpid][thr[tid].e].localId
                /\ outboxes'[kpid][p].buffer[off].value =
                       pack(kern, vertexValues[kpid][workqueue[kpid][tid]])
                /\ \A k \in 0 .. (off - 1) :
                       outboxes'[kpid][p].buffer[k] = outboxes[kpid][p].buffer[k]
                /\ \A i \in Parts, j \in Parts :
                       <<i, j>> # <<kpid, p>> => outboxes'[i][j] = outboxes[i][j]
       /\ ExpandDone' =>
            \A p \in Parts \ {kpid'} :
                /\ outboxes'[kpid'][p].length = Cardinality(QueuedEdgesTo(kpid, p)')
                /\ DOMAIN outboxes'[kpid'][p].buffer = 0 .. (outboxes'[kpid'][p].length - 1)
                /\ \A k \in DOMAIN outboxes'[kpid'][p].buffer :
                       /\ outboxes'[kpid'][p].buffer[k].born = supersteps'
                       /\ outboxes'[kpid'][p].buffer[k].bornRun = runs']_vars

\* An expand kernel has completed, two of its work items having pushed into
\* the same outbox.
C17_Witness ==
    /\ ExpandDone /\ workqueueSize[kpid] = 2
    /\ \E p \in Parts \ {kpid} : outboxes[kpid][p].length = 2

\* ------------------------------------------------------------------ C18
\* No step changes vertexValues, workset, workqueue, workqueueSize or the
\* outboxes of partition j.
SamePartition(j) ==
    /\ vertexValues'[j] = vertexValues[j]
    /\ workset'[j] = workset[j]
    /\ workqueue'[j] = workqueue[j]
    /\ workqueueSize'[j] = workqueueSize[j]
    /\ outboxes'[j] = outboxes[j]

\* C18: the scatter, compact and expand stages, acting for partition i,
\* change only partition i's vertexValues, workset, workqueue, workqueueSize
\* and outboxes, and no inbox; the exchange changes only inboxes, writing
\* into inboxes[j][i] the content of outboxes[i][j]; the swap changes only
\* each inbox itself.
C18_OnlyExchangeCrossesPartitions ==
    [][/\ pc \in {"scatter", "compact", "expand"} =>
            /\ inboxes' = inboxes
            /\ \A j \in Parts \ {kpid'} : SamePartition(j)
       /\ pc = "exchange" =>
            /\ \A j \in Parts : SamePartition(j)
            /\ \A i \in Parts : \A j \in Parts \ {i} :
                  /\ inboxes'[j][i].buffer = inboxes[j][i].buffer
                  /\ inboxes'[j][i].length = inboxes[j][i].length
                  /\ inboxes'[j][i].lengthRecv = outboxes[i][j].length
                  /\ inboxes'[j][i].bufferRecv = ArrPrefix(outboxes[i][j].buffer, outboxes[i][j].length)
       /\ pc \in {"swap", "loop"} => \A j \in Parts : SamePartition(j)]_vars

\* In a run of two partitions the expand kernel of the second partition
\* has pushed into its own outbox while the first partition's outbox holds
\* the messages of its own expand.
C18_Witness ==
    /\ pc = "expand" /\ numParts = 2 /\ kpid = 1 /\ hi = 2
    /\ outboxes[0][1].length > 0
    /\ outboxes[1][0].length > 0

\* ------------------------------------------------------------------ C19
\* The operations still on some stream.
Pending == UNION {{queue[i][n] : n \in 1 .. Len(queue[i])} : i \in Parts}

\* Operation op runs in this step.
Runs(op) == \E i \in Parts : queue[i] # <<>> /\ Head(queue[i]) = op /\ queue'[i] = Tail(queue[i])

\* No operation of partition i of one of the kinds ks is still to run.
NonePending(ks, i) == \A o \in Pending \ doneOps' : ~(o.k \in ks /\ o.p = i)

\* C19: in each superstep a compact of partition i runs after the scatters
\* of i, an expand of i after its compact, a copy of an outbox of i after
\* the scatters, the compact and the expand of i, and the end-of-step sync
\* returns after all of them; a scatter of partition j runs before any copy
\* into j of its superstep is issued and after the sync of the one before.
C19_StreamOrder ==
    [][/\ \A op \in Pending :
            Runs(op) =>
              /\ op.k = "compact" => NonePending({"scatter"}, op.p)
              /\ op.k = "expand" =>
                    /\ NonePending({"scatter", "compact"}, op.p)
                    /\ Op("compact", op.p, op.p) \in doneOps
              /\ op.k = "copy" =>
                    /\ NonePending({"scatter", "compact", "expand"}, op.p)
                    /\ Op("compact", op.p, op.p) \in doneOps
              /\ op.k = "scatter" =>
                    \A o \in Pending \cup doneOps : ~(o.k = "copy" /\ o.q = op.p)
       /\ (pc = "sync" /\ pc' # "sync") =>
              /\ Pending = {}
              /\ \A i \in Parts : \A j \in Parts \ {i} : Op("copy", i, j) \in doneOps]_vars

\* The copy of partition 0's outbox has run while the expand of partition 1
\* is still on its stream: the streams run concurrently.
C19_Witness ==
    /\ numParts = 2
    /\ Op("copy", 0, 1) \in doneOps
    /\ Op("expand", 0, 0) \in doneOps
    /\ queue[1] # <<>> /\ Head(queue[1]) = Op("expand", 1, 1)

\* ------------------------------------------------------------------ C20
\* C20: the exchange writes, in every inbox, the buffer that scatter does
\* not read and leaves the one it reads as it is; scatter reads only that
\* one and changes none; the swap makes the buffer just received the one
\* the next scatter reads, and the other one, its length reset to 0, the
\* one the next exchange writes.
C20_DoubleBuffering ==
    [][/\ pc = "exchange" =>
            \A i \in Parts : \A j \in Parts \ {i} :
                /\ inboxes'[i][j].buffer = inboxes[i][j].buffer
                /\ inboxes'[i][j].length = inboxes[i][j].length
                /\ inboxes'[i][j].lengthRecv = outboxes[j][i].length
                /\ \A k \in 0 .. (outboxes[j][i].length - 1) :
                       inboxes'[i][j].bufferRecv[k] = outboxes[j][i].buffer[k]
       /\ pc = "scatter" =>
            /\ inboxes' = inboxes
            /\ \A tid \in DOMAIN thr : Writes(tid) =>
                   vertexValues'[kpid][TargetOf(tid)] =
                       update(kern, unpack(kern, inboxes[kpid][kbox].buffer[tid].value))
       /\ pc = "swap" =>
            \A i \in Parts : \A j \in Parts \ {i} :
                /\ inboxes'[i][j].buffer = inboxes[i][j].bufferRecv
                /\ inboxes'[i][j].length = inboxes[i][j].lengthRecv
                /\ inboxes'[i][j].lengthRecv = 0
                /\ inboxes'[i][j].bufferRecv = EmptyArr]_vars

\* An exchange has received new messages into an inbox whose other buffer
\* still holds the messages scattered in this superstep.
C20_Witness ==
    /\ pc = "swap"
    /\ \E i \in Parts : \E j \in Parts \ {i} :
          /\ inboxes[i][j].length > 0
          /\ inboxes[i][j].lengthRecv > 0
          /\ inboxes[i][j].bufferRecv[0].born = supersteps
          /\ inboxes[i][j].buffer[0].born < supersteps

\* ------------------------------------------------------------------ C21
\* C21: the message boxes a partition has for itself are never written:
\* outboxes[i][i] and inboxes[i][i] have length 0, in both buffers, in every
\* reachable state.
C21_SelfBoxesEmpty ==
    \A i \in Parts :
        /\ outboxes[i][i].length = 0
        /\ outboxes[i][i].buffer = EmptyArr
        /\ inboxes[i][i].length = 0
        /\ inboxes[i][i].lengthRecv = 0
        /\ inboxes[i][i].buffer = EmptyArr
        /\ inboxes[i][i].bufferRecv = EmptyArr

\* In a run of two partitions a superstep has reached its exchange after a
\* partition expanded a vertex with an edge into its own partition and
\* pushed a message to its peer.
C21_Witness ==
    /\ pc = "exchange" /\ numParts = 2
    /\ \E i \in Parts :
          /\ QueuedEdgesTo(i, i) # {}
          /\ \E j \in Parts \ {i} : outboxes[i][j].length > 0

\* ------------------------------------------------------------------ C22
\* The distances in edges from the vertices of seen, level d being the
\* frontier: dist holds the distances found so far, -1 elsewhere.
RECURSIVE Levels(_, _, _, _)
Levels(E, dist, frontier, d) ==
    IF frontier = {} THEN dist
    ELSE LET next == {e[2] : e \in {x \in E : x[1] \in frontier /\ dist[x[2]] < 0}}
         IN  Levels(E, [v \in DOMAIN dist |-> IF v \in next THEN d + 1 ELSE dist[v]],
                    next, d + 1)

\* The shortest-path distance of every vertex from s, -1 when unreachable.
Distances(s) ==
    Levels(GlobalEdges, [v \in AllIds |-> IF v = s THEN 0 ELSE 0 - 1], {s}, 0)

\* The first run, with the BFS kernels and s the one vertex seeded.
BfsFrom(s) == kern = "bfs" /\ runs = 1 /\ seeds \cap AllIds = {s}

\* C22: BFS from one source, for every graph, partitioning and interleaving:
\* run returns, within as many full supersteps as there are vertices, and
\* the value of each vertex is then its distance in edges from the source,
\* or -1 if it is unreachable.
C22_BfsDistances ==
    \A s \in AllIds :
        BfsFrom(s) =>
            /\ supersteps <= TotalVertices
            /\ pc # "undefined"
            /\ Returned => Gathered = Distances(s)

\* BFS over two partitions has returned with a vertex at distance 2 and a
\* vertex that is unreachable or at distance 1.
C22_Witness ==
    /\ numParts = 2 /\ Returned
    /\ \E s \in AllIds :
          /\ BfsFrom(s)
          /\ Gathered = Distances(s)
          /\ \E v \in AllIds : Gathered[v] = 2

\* ------------------------------------------------------------------ C23
\* An inbox that held messages when the superstep began: the scatter loop
\* launched scatterKernel over it (the inboxes change only in the exchange
\* and the swap, which a terminating superstep does not reach).
ScatterLaunched == \E i \in Parts : \E j \in Parts : inboxes[i][j].length > 0

\* C23: the superstep in which run returns changes no vertex value: when
\* the probe finds every workqueue empty, and when run has returned,
\* vertexValues are what they were when that superstep began, whatever
\* scatters were launched in it.
C23_TerminatingStepChangesNothing ==
    ((pc = "probe" /\ Quiescent) \/ Returned) => vertexValues = valuesAtCall

\* run has returned from a superstep whose scatter loop launched a kernel.
C23_Witness ==
    /\ Returned /\ ScatterLaunched
    /\ vertexValues = valuesAtCall

\* ------------------------------------------------------------------ C24
\* The steps of run and of the supersteps it calls, kernels' work items
\* included: everything between the call of run and its return.
RunStep ==
    \/ LoopHead
    \/ ScatterLaunch
    \/ \E tid \in DOMAIN thr : ScatterCheck(tid)
    \/ \E tid \in DOMAIN thr : ScatterWrite(tid)
    \/ ScatterEnd
    \/ CompactLaunch
    \/ \E tid \in DOMAIN thr : CompactItem(tid)
    \/ Probe
    \/ ExpandLaunch
    \/ \E tid \in DOMAIN thr : ExpandCheck(tid)
    \/ \E tid \in DOMAIN thr : ExpandWrite(tid)
    \/ \E tid \in DOMAIN thr : ExpandPush(tid)
    \/ ExpandEnd
    \/ Exchange
    \/ Swap

\* The engine under the capability sets of LiveKernels, whose updated
\* vertices never pass cond again.
InitLive ==
    \E P \in 1 .. MaxParts, E \in Graphs, k \in LiveKernels :
        \E owner \in [Vertex -> 0 .. (P - 1)] :
            InitWith(P, owner, E,
                     MaxCrossCut(P, [i \in 0 .. (P - 1) |-> EdgesOf(owner, E, i)]), k)

\* The host thread that called run executes it statement by statement, a
\* launched kernel runs its work items to completion, and the
\* synchronisations of superstep return once the device is idle: while a
\* step of run is possible, one is eventually taken.
SpecLive == InitLive /\ [][Next]_vars /\ WF_vars(RunStep)

\* cond(update(x)) = false for every value x.
UpdatedNeverPasses(k) ==
    \A x \in InitialValue .. (TotalVertices + 1) : ~cond(k, update(k, x))

\* A message that was pushed two or more supersteps before the superstep
\* that scattered it last: its outbox was copied again without being
\* cleared.
CopiedAgain ==
    \E i \in Parts : \E j \in Parts :
        \E n \in 0 .. (inboxes[i][j].length - 1) :
            LET msg == inboxes[i][j].buffer[n]
            IN  msg.bornRun = runs /\ supersteps - msg.born >= 2

\* C24: if cond(update(x)) = false for every value x, then for every graph,
\* partitioning and set of seeds a call of run eventually returns, also when
\* outboxes that were not cleared are copied again in later exchanges.
C24_RunReturns == (UpdatedNeverPasses(kern) /\ pc # "idle") ~> Returned

\* run has returned under the kernel that lets a seeded vertex be updated,
\* and the superstep it returned from scattered messages that had been
\* copied again.
C24_Witness ==
    /\ Returned /\ kern = "reach" /\ UpdatedNeverPasses(kern)
    /\ CopiedAgain
=========================================================================
